---- MODULE Spec2Model ----
(***************************************************************************)
(* Study Tracker (src/main.py): the session-timing controller              *)
(* (StudyTrackerApp) and the SQLite session store (SessionDatabase).       *)
(*                                                                         *)
(* Time.  A datetime is an integer number of microseconds (the resolution  *)
(* of Python's datetime) counted from the start of the hour the program    *)
(* runs in; None is the integer -1.  The wall clock advances in whole      *)
(* seconds, so timedelta.total_seconds() is exact.  datetime.isoformat()   *)
(* is modelled on the "MM:SS[.ffffff]" part of the text (the date and hour *)
(* prefix is the same for every datetime of the model).                    *)
(*                                                                         *)
(* Text.  A string is a sequence of character codes (ASCII).               *)
(*                                                                         *)
(* Event loop.  Tk runs one callback at a time.  A modal dialog            *)
(* (messagebox.showinfo) runs a nested event loop: timer callbacks         *)
(* (after) keep firing while it is shown, button commands do not.          *)
(* stop_session is therefore two steps: up to and including the            *)
(* "Session Saved" dialog, and the reset that follows its dismissal.       *)
(* An after callback runs at or after the time it is due, never before.    *)
(*                                                                         *)
(* Specifications.  Spec: the handlers called by any caller, in any state  *)
(* in which no dialog is shown.  SpecGui: the handlers called by their     *)
(* buttons, each only while the button is enabled.  SpecLive: SpecGui with *)
(* the event loop's fairness.  SpecApp: SpecGui and the session viewer.    *)
(* SpecNotes: stopwatch sessions with notes typed and rows looked up.      *)
(* SpecStore: SessionDatabase alone.                                       *)
(***************************************************************************)
EXTENDS Integers, Sequences, FiniteSets, TLC

(* ------------------------------ bounds --------------------------------- *)
\* last second of the wall clock
MaxTime == 90
\* largest countdown duration entered, in minutes (the code allows 1..180)
MaxMinutes == 1
\* a session is opened only while the table holds fewer rows than this
MaxSessions == 2
\* rows of the store-only specification
MaxRows == 3
\* gaps, in seconds, between two events
Deltas == {30}

(* -------------------------- program constants -------------------------- *)
\* microseconds per second (datetime resolution)
Micro == 1000000
\* self.after(200, ...): milliseconds
AfterMs == 200
\* minutes * 60
SecondsPerMinute == 60
\* simpledialog.askinteger(minvalue=1, maxvalue=180)
MinValue == 1
MaxValue == 180

None == -1
\* a Tk after id whose callback ran or was cancelled
Gone == -2

(* ------------------------------- text ---------------------------------- *)
Space == 32
Newline == 10
Colon == 58
Dot == 46
Zero == 48

Min(S) == CHOOSE x \in S : \A y \in S : x <= y

\* str.isspace(): the whitespace of ASCII (tab to carriage return, the four
\* separators 28..31, space)
IsSpace(ch) == ch \in {Space, Newline, 9, 11, 12, 13, 28, 29, 30, 31}

RECURSIVE lstrip(_)
lstrip(s) == IF s # <<>> /\ IsSpace(Head(s)) THEN lstrip(Tail(s)) ELSE s

RECURSIVE rstrip(_)
rstrip(s) ==
    IF s # <<>> /\ IsSpace(s[Len(s)]) THEN rstrip(SubSeq(s, 1, Len(s) - 1)) ELSE s

\* str.strip()
strip(s) == rstrip(lstrip(s))

\* Text.get("1.0", tk.END): the widget's content and the newline Tk ends it with
text_get(content) == content \o <<Newline>>

\* zero-padded decimal digits, most significant first
RECURSIVE Digits(_, _)
Digits(n, width) ==
    IF width = 0 THEN <<>> ELSE Digits(n \div 10, width - 1) \o <<Zero + (n % 10)>>

\* decimal digits without padding
RECURSIVE DigitsOf(_)
DigitsOf(n) == IF n < 10 THEN <<Zero + n>> ELSE DigitsOf(n \div 10) \o <<Zero + (n % 10)>>

\* mutant of isoformat: minutes and seconds not zero-padded
isoformat_unpadded(dt) ==
    LET secs == dt \div Micro
        us   == dt % Micro
    IN  DigitsOf(secs \div 60) \o <<Colon>> \o DigitsOf(secs % 60)
            \o (IF us = 0 THEN <<>> ELSE <<Dot>> \o Digits(us, 6))

\* datetime.isoformat(): "MM:SS", and ".ffffff" only when microsecond # 0
isoformat(dt) ==
    LET secs == dt \div Micro
        us   == dt % Micro
    IN  Digits(secs \div 60, 2) \o <<Colon>> \o Digits(secs % 60, 2)
            \o (IF us = 0 THEN <<>> ELSE <<Dot>> \o Digits(us, 6))

\* SQLite's BINARY collation on TEXT: memcmp, then the shorter one first
TextLess(a, b) ==
    LET n     == IF Len(a) < Len(b) THEN Len(a) ELSE Len(b)
        diffs == {i \in 1..n : a[i] # b[i]}
    IN  IF diffs = {} THEN Len(a) < Len(b) ELSE a[Min(diffs)] < b[Min(diffs)]

\* timedelta.total_seconds()
total_seconds(delta) == delta \div Micro

(* ------------------------------- state --------------------------------- *)
VARIABLES
    clock,            \* wall clock, seconds
    _mode,            \* self._mode
    _running,         \* self._running
    _start_time,      \* self._start_time
    _elapsed,         \* self._elapsed
    _target_seconds,  \* self._target_seconds
    _timer_job,       \* self._timer_job: the after callback scheduled last, as the
                      \* time it is due while Tk holds it, Gone after it ran or
                      \* was cancelled
    after_jobs,       \* the other after callbacks Tk holds: their due times, sorted
    dialogs,          \* stack of stop_session calls waiting in "Session Saved"
    start_btn,        \* state of self.start_btn
    pause_btn,        \* state of self.pause_btn
    resume_btn,       \* state of self.resume_btn
    stop_btn,         \* state of self.stop_btn
    notes_text,       \* content of the notes widget
    db,               \* rows of table sessions, in rowid order
    listing,          \* result of the last get_all_sessions()
    fetched,          \* result of the last get_session()
    inserted,         \* history: the arguments of each add_session call
    signal,           \* history: the dialog the last step showed
    sess              \* history: the session the user opened last

ctrl == <<_mode, _running, _start_time, _elapsed, _target_seconds>>
btns == <<start_btn, pause_btn, resume_btn, stop_btn>>
vars == <<clock, _mode, _running, _start_time, _elapsed, _target_seconds, _timer_job,
          after_jobs, dialogs, start_btn, pause_btn, resume_btn, stop_btn, notes_text,
          db, listing, fetched, inserted, signal, sess>>

Modes == {"stopwatch", "timer"}

\* datetime.now()
datetime_now == clock * Micro

\* the controller's fields as one value
Self ==
    [mode |-> _mode, running |-> _running, start_time |-> _start_time,
     elapsed |-> _elapsed, target_seconds |-> _target_seconds]

Assign(c) ==
    /\ _mode' = c.mode
    /\ _running' = c.running
    /\ _start_time' = c.start_time
    /\ _elapsed' = c.elapsed
    /\ _target_seconds' = c.target_seconds


(* --------------------------- SessionDatabase --------------------------- *)
\* mutant of next_id: the id of the first row given again
next_id_reused(rows) == 1

\* INTEGER PRIMARY KEY AUTOINCREMENT: one more than the largest id ever used
\* (rows are never deleted, so the largest id is the last row's)
next_id(rows) == IF rows = <<>> THEN 1 ELSE rows[Len(rows)].id + 1

\* SessionDatabase.add_session
add_session(rows, start, end, duration, notes) ==
    Append(rows, [id |-> next_id(rows), start_time |-> isoformat(start),
                  end_time |-> isoformat(end), duration |-> duration, notes |-> notes])

\* ORDER BY start_time DESC of an index sequence p over rows
OrderedDesc(rows, p) ==
    \A i, j \in 1..Len(p) : i < j => ~TextLess(rows[p[i]].start_time, rows[p[j]].start_time)

\* the orders in which SELECT ... ORDER BY start_time DESC may return the rows
\* (the order of rows with equal start_time is SQLite's choice)
Orderings(rows) ==
    {p \in [1..Len(rows) -> 1..Len(rows)] :
        /\ \A i, j \in 1..Len(rows) : i # j => p[i] # p[j]
        /\ OrderedDesc(rows, p)}

\* SessionDatabase.get_all_sessions: SELECT id, start_time, duration
get_all_sessions(rows) ==
    {[i \in 1..Len(rows) |->
        <<rows[p[i]].id, rows[p[i]].start_time, rows[p[i]].duration>>] : p \in Orderings(rows)}

\* SessionDatabase.get_session: SELECT * ... WHERE id = ?  (fetchone: a row or None)
get_session(rows, session_id) ==
    LET hit == {i \in 1..Len(rows) : rows[i].id = session_id}
    IN  IF hit = {} THEN <<>>
        ELSE LET r == rows[Min(hit)]
             IN  <<r.id, r.start_time, r.end_time, r.duration, r.notes>>

(* --------------------------- history variables ------------------------- *)
\* sess describes the session the user opened last: open until a row is written
\* for it; first, the time of the Start (or Resume) that opened it; mode0 and
\* target0, the mode and target it was opened with; ran, the seconds the clock
\* advanced while it was open and running; plain, whether it was opened by Start
\* and has seen only Pause while running, Resume while paused and no change of
\* mode since; rows, the rows written for it.
NoSession ==
    [open |-> FALSE, first |-> None, mode0 |-> "stopwatch", target0 |-> 0,
     ran |-> 0, plain |-> TRUE, rows |-> 0]

NewSession(c, isStart) ==
    [open |-> TRUE, first |-> c.start_time, mode0 |-> c.mode,
     target0 |-> c.target_seconds, ran |-> 0, plain |-> isStart, rows |-> 0]

(* --------------------------- StudyTrackerApp --------------------------- *)
\* mutants of is_open: a Stop button that always finds a session, and one that
\* forgets the running flag
is_open_always(c) == c.running \/ c.elapsed >= 0
is_open_elapsed_only(c) == c.elapsed > 0

\* stop_session line 255: a session is open
is_open(c) == c.running \/ c.elapsed > 0

\* stop_session line 261 (and _update_timer lines 179, 182)
compute_elapsed(c, now) == total_seconds(now - c.start_time) + c.elapsed

\* mutant of compute_duration: the clamp to the target left out
compute_duration_unclamped(c, elapsed) == elapsed

\* stop_session lines 265-268
compute_duration(c, elapsed) ==
    IF c.mode = "timer" /\ elapsed >= c.target_seconds THEN c.target_seconds ELSE elapsed

\* stop_session line 262
record_start(c) == c.start_time

\* mutant of record_notes: the text of the widget stored as it is
record_notes_unstripped(content) == text_get(content)

\* stop_session line 271
record_notes(content) == strip(text_get(content))

\* _update_timer line 183
compute_remaining(c, elapsed) ==
    IF c.target_seconds - elapsed > 0 THEN c.target_seconds - elapsed ELSE 0

\* stop_session lines 276-279
reset_state(c) ==
    [c EXCEPT !.running = FALSE, !.elapsed = 0, !.start_time = None, !.target_seconds = 0]

\* a sorted sequence with x added
RECURSIVE Insert(_, _)
Insert(q, x) ==
    IF q = <<>> \/ x <= Head(q) THEN <<x>> \o q ELSE <<Head(q)>> \o Insert(Tail(q), x)

\* sequence q without its k-th element
Without(q, k) == SubSeq(q, 1, k - 1) \o SubSeq(q, k + 1, Len(q))

\* Tk's timer queue: job is the callback self._timer_job names, others the rest
Queue(job, others) == [job |-> job, others |-> others]

\* the delay of self.after(200, ...) in the unit of datetimes
AfterDelay == AfterMs * (Micro \div 1000)

\* the answers the prompt accepts: askinteger(minvalue=1, maxvalue=180)
Minutes == {m \in MinValue..MaxValue : m <= MaxMinutes}

\* self._timer_job = self.after(200, self._update_timer) at time now: the callback
\* self._timer_job named before, if Tk still holds it, is one of the others now
after(q, now) ==
    Queue(now + AfterDelay,
          IF q.job >= 0 THEN Insert(q.others, q.job) ELSE q.others)

\* self.after_cancel(self._timer_job): nothing happens to a callback that already ran
after_cancel(q) == Queue(IF q.job >= 0 THEN Gone ELSE q.job, q.others)

\* stop_session lines 255-273, called by `caller` with the controller's fields c:
\* up to the dialog.  s is the session the user has open.
stop_session(caller, c, s) ==
    IF ~is_open(c)
    THEN /\ signal' = "No session"
         /\ sess' = s
         /\ UNCHANGED <<db, inserted, dialogs>>
    ELSE LET now      == datetime_now
             elapsed  == compute_elapsed(c, now)
             duration == compute_duration(c, elapsed)
         IN  /\ db' = add_session(db, record_start(c), now, duration,
                                  record_notes(notes_text))
             /\ inserted' = Append(inserted,
                    [start |-> record_start(c), end |-> now, duration |-> duration,
                     notes |-> record_notes(notes_text), typed |-> notes_text])
             /\ signal' = "Session Saved"
             /\ dialogs' = Append(dialogs, caller)
             /\ sess' = [s EXCEPT !.open = FALSE, !.rows = @ + 1]

SetQueue(q) == _timer_job' = q.job /\ after_jobs' = q.others

\* _update_timer lines 174-190 with the controller's fields c and timer queue q,
\* called by `caller`: Tk ("auto"), start_session ("start") or resume_session
\* ("resume")
update_timer(caller, c, s, q) ==
    IF ~c.running
    THEN /\ SetQueue(q)
         /\ signal' = "none"
         /\ sess' = s
         /\ UNCHANGED <<db, inserted, dialogs>>
    ELSE IF c.mode = "timer" /\ compute_remaining(c, compute_elapsed(c, datetime_now)) <= 0
    THEN /\ stop_session(caller, c, s)
         /\ SetQueue(q)
    ELSE /\ SetQueue(after(q, datetime_now))
         /\ signal' = "none"
         /\ sess' = s
         /\ UNCHANGED <<db, inserted, dialogs>>

\* mutant of prompt_cancelled: the answer None not checked
prompt_cancelled_unchecked(minutes) == FALSE

\* start_session lines 210-211: the prompt was cancelled
prompt_cancelled(minutes) == minutes = None

\* a modal dialog is shown: button commands cannot run
Modal == dialogs # <<>>

\* the last element of a sequence: the stop_session call whose dialog is on top
Top(d) == d[Len(d)]

\* the four control buttons: .config(state=...)
SetButtons(start, pause, resume, stop) ==
    /\ start_btn' = start
    /\ pause_btn' = pause
    /\ resume_btn' = resume
    /\ stop_btn' = stop

Init ==
    /\ clock = 0
    /\ _mode = "stopwatch"
    /\ _running = FALSE
    /\ _start_time = None
    /\ _elapsed = 0
    /\ _target_seconds = 0
    /\ _timer_job = None
    /\ after_jobs = <<>>
    /\ dialogs = <<>>
    /\ start_btn = "normal"
    /\ pause_btn = "disabled"
    /\ resume_btn = "disabled"
    /\ stop_btn = "disabled"
    /\ notes_text = <<>>
    /\ db = <<>>
    /\ listing = <<>>
    /\ fetched = <<>>
    /\ inserted = <<>>
    /\ signal = "none"
    /\ sess = NoSession

\* StudyTrackerApp.start_session; minutes is the answer to the prompt (None: cancelled)
start_session(minutes) ==
    /\ ~Modal
    /\ UNCHANGED <<clock, notes_text, listing, fetched>>
    /\ IF _running \/ (_mode = "timer" /\ prompt_cancelled(minutes))
       THEN /\ signal' = IF _running THEN "none" ELSE "Timer duration cancelled"
            /\ UNCHANGED <<ctrl, _timer_job, after_jobs, dialogs, db, inserted, sess, btns>>
       ELSE LET c == [Self EXCEPT
                        !.target_seconds =
                            IF _mode = "timer" THEN minutes * SecondsPerMinute ELSE 0,
                        !.elapsed = IF _mode = "timer" THEN 0 ELSE @,
                        !.start_time = datetime_now,
                        !.running = TRUE]
                s == IF sess.open /\ _mode = "stopwatch"
                     THEN [sess EXCEPT !.plain = FALSE]
                     ELSE NewSession(c, TRUE)
            IN  /\ Assign(c)
                /\ Len(db) < MaxSessions
                /\ update_timer("start", c, s, Queue(_timer_job, after_jobs))
                /\ IF dialogs' # dialogs
                   THEN UNCHANGED btns
                   ELSE SetButtons("disabled", "normal", "disabled", "normal")

\* StudyTrackerApp.pause_session
pause_session ==
    /\ ~Modal
    /\ signal' = "none"
    /\ UNCHANGED <<clock, notes_text, listing, fetched, dialogs, db, inserted, sess>>
    /\ IF ~_running
       THEN UNCHANGED <<ctrl, _timer_job, after_jobs, btns>>
       ELSE /\ SetQueue(after_cancel(Queue(_timer_job, after_jobs)))
            /\ Assign([Self EXCEPT
                         !.elapsed = @ + total_seconds(datetime_now - _start_time),
                         !.running = FALSE])
            /\ SetButtons(start_btn, "disabled", "normal", stop_btn)

\* StudyTrackerApp.resume_session
resume_session ==
    /\ ~Modal
    /\ UNCHANGED <<clock, notes_text, listing, fetched>>
    /\ IF _running
       THEN /\ signal' = "none"
            /\ UNCHANGED <<ctrl, _timer_job, after_jobs, dialogs, db, inserted, sess, btns>>
       ELSE LET c == [Self EXCEPT !.start_time = datetime_now, !.running = TRUE]
                s == IF sess.open THEN sess ELSE NewSession(c, FALSE)
            IN  /\ Assign(c)
                /\ Len(db) < MaxSessions
                /\ update_timer("resume", c, s, Queue(_timer_job, after_jobs))
                /\ IF dialogs' # dialogs
                   THEN UNCHANGED btns
                   ELSE SetButtons(start_btn, "normal", "disabled", stop_btn)

\* StudyTrackerApp.stop_session called by the Stop button, up to the dialog
stop_button ==
    /\ ~Modal
    /\ UNCHANGED <<clock, notes_text, listing, fetched, ctrl, _timer_job, after_jobs, btns>>
    /\ stop_session("user", Self, sess)

\* the "Session Saved" dialog on top is dismissed: stop_session lines 276-285, then
\* what is left of the handler that called it (start_session lines 221-224,
\* resume_session lines 242-243; _on_mode_change line 169 sets the target, already
\* 0, to 0)
dismiss ==
    /\ Modal
    /\ signal' = "none"
    /\ dialogs' = SubSeq(dialogs, 1, Len(dialogs) - 1)
    /\ Assign(reset_state(Self))
    /\ notes_text' = <<>>
    /\ CASE Top(dialogs) = "start" -> SetButtons("disabled", "normal", "disabled", "normal")
         [] Top(dialogs) = "resume" -> SetButtons("normal", "normal", "disabled", "disabled")
         [] OTHER -> SetButtons("normal", "disabled", "disabled", "disabled")
    /\ UNCHANGED <<clock, listing, fetched, _timer_job, after_jobs, db, inserted, sess>>

\* StudyTrackerApp._on_mode_change; m is the radio button clicked
on_mode_change(m) ==
    /\ ~Modal
    /\ UNCHANGED <<clock, notes_text, listing, fetched, _timer_job, after_jobs, btns>>
    /\ LET c == [Self EXCEPT !.mode = m]
       IN  IF is_open(c)
           THEN /\ Assign(c)
                /\ stop_session("mode", c, sess)
           ELSE /\ Assign([c EXCEPT !.target_seconds = 0])
                /\ signal' = "none"
                /\ sess' = IF sess.open /\ m # _mode
                           THEN [sess EXCEPT !.plain = FALSE] ELSE sess
                /\ UNCHANGED <<dialogs, db, inserted>>

\* Tk runs the after callback self._timer_job names: _update_timer
tick ==
    /\ _timer_job >= 0
    /\ datetime_now >= _timer_job
    /\ UNCHANGED <<clock, notes_text, listing, fetched, ctrl, btns>>
    /\ update_timer("auto", Self, sess, Queue(Gone, after_jobs))

\* Tk runs the k-th of the other after callbacks: _update_timer
stale_tick(k) ==
    /\ k \in 1..Len(after_jobs)
    /\ datetime_now >= after_jobs[k]
    /\ UNCHANGED <<clock, notes_text, listing, fetched, ctrl, btns>>
    /\ update_timer("auto", Self, sess, Queue(_timer_job, Without(after_jobs, k)))

\* the wall clock advances by d seconds
advance(d) ==
    /\ clock + d <= MaxTime
    /\ clock' = clock + d
    /\ signal' = "none"
    /\ sess' = IF sess.open /\ _running THEN [sess EXCEPT !.ran = @ + d] ELSE sess
    /\ UNCHANGED <<ctrl, _timer_job, after_jobs, dialogs, notes_text, db, listing,
                   fetched, inserted, btns>>

Next ==
    \/ \E minutes \in {None} \cup Minutes : start_session(minutes)
    \/ pause_session
    \/ resume_session
    \/ stop_button
    \/ dismiss
    \/ \E m \in Modes : on_mode_change(m)
    \/ tick
    \/ \E k \in 1..Len(after_jobs) : stale_tick(k)
    \/ \E d \in Deltas : advance(d)

Spec == Init /\ [][Next]_vars

(* ------------------------- the buttons as shown ------------------------ *)
\* Spec lets any caller call the four handlers in any state.  The window itself
\* runs a handler only when its button is enabled: ttk.Button(command=...) with
\* state "normal".  The mode selector and the timer are never disabled.
click_start(minutes) == start_btn = "normal" /\ start_session(minutes)
click_pause == pause_btn = "normal" /\ pause_session
click_resume == resume_btn = "normal" /\ resume_session
click_stop == stop_btn = "normal" /\ stop_button

NextGui ==
    \/ \E minutes \in {None} \cup Minutes : click_start(minutes)
    \/ click_pause
    \/ click_resume
    \/ click_stop
    \/ dismiss
    \/ \E m \in Modes : on_mode_change(m)
    \/ tick
    \/ \E k \in 1..Len(after_jobs) : stale_tick(k)
    \/ \E d \in Deltas : advance(d)

SpecGui == Init /\ [][NextGui]_vars

(* ------------------------- the store on its own ------------------------ *)
\* The database file outlives the process, so the store is also checked under
\* every sequence of add_session calls, whatever their start times.
StoreTimes == {9 * Micro, 10 * Micro, 10 * Micro + (Micro \div 2), 61 * Micro}
StoreDurations == {0, 30}

\* SessionDatabase.add_session called with start, and end = start + duration
store_insert(start, duration) ==
    /\ Len(db) < MaxRows
    /\ db' = add_session(db, start, start + duration * Micro, duration, <<>>)
    /\ inserted' = Append(inserted,
            [start |-> start, end |-> start + duration * Micro, duration |-> duration,
             notes |-> <<>>, typed |-> <<>>])
    /\ signal' = "none"
    /\ UNCHANGED <<clock, ctrl, _timer_job, after_jobs, dialogs, notes_text, listing,
                   fetched, sess, btns>>

\* StudyTrackerApp.open_sessions_window: sessions = self.db.get_all_sessions()
open_sessions_window ==
    /\ ~Modal
    /\ listing' \in get_all_sessions(db)
    /\ signal' = "none"
    /\ UNCHANGED <<clock, ctrl, _timer_job, after_jobs, dialogs, notes_text, db, fetched,
                   inserted, sess, btns>>

\* open_sessions_window.on_select with the idx-th line of the list selected
on_select(idx) ==
    /\ ~Modal
    /\ idx \in 1..Len(listing)
    /\ fetched' = get_session(db, listing[idx][1])
    /\ signal' = "none"
    /\ UNCHANGED <<clock, ctrl, _timer_job, after_jobs, dialogs, notes_text, db, listing,
                   inserted, sess, btns>>

NextStore ==
    \/ \E start \in StoreTimes, duration \in StoreDurations : store_insert(start, duration)
    \/ open_sessions_window
    \/ \E idx \in 1..MaxRows : on_select(idx)

SpecStore == Init /\ [][NextStore]_vars

(* ------------------------- notes and lookup by id ---------------------- *)
\* texts the user leaves in the notes widget (97 is "a", 98 is "b"): nothing;
\* " a b" and a newline; whitespace only; "a", a newline, "b"
NoteTexts ==
    {<<>>, <<Space, 97, Space, 98, Newline>>, <<Newline, Space>>,
     <<97, Newline, 98>>}

\* the user edits the notes widget (tk.Text, always editable)
type_notes(content) ==
    /\ ~Modal
    /\ notes_text # content
    /\ notes_text' = content
    /\ signal' = "none"
    /\ UNCHANGED <<clock, ctrl, _timer_job, after_jobs, dialogs, db, listing, fetched,
                   inserted, sess, btns>>

\* ids a caller may ask for: assigned or not
SessionIds == 0..(MaxSessions + 1)

\* SessionDatabase.get_session(session_id), called with any id
lookup(session_id) ==
    /\ fetched' = get_session(db, session_id)
    /\ signal' = "none"
    /\ UNCHANGED <<clock, ctrl, _timer_job, after_jobs, dialogs, notes_text, db, listing,
                   inserted, sess, btns>>

\* sessions timed with Start and Stop, notes typed at any time, and lookups
NextNotes ==
    \/ \E minutes \in {None} \cup Minutes : click_start(minutes)
    \/ click_stop
    \/ dismiss
    \/ tick
    \/ \E d \in Deltas : advance(d)
    \/ \E content \in NoteTexts : type_notes(content)
    \/ \E session_id \in SessionIds : lookup(session_id)

SpecNotes == Init /\ [][NextNotes]_vars

(* ------------------------- the whole application ---------------------- *)
\* the window as the user drives it, with the session viewer
NextApp ==
    \/ NextGui
    \/ open_sessions_window
    \/ \E idx \in 1..MaxSessions : on_select(idx)

SpecApp == Init /\ [][NextApp]_vars

(* ------------------------------ scheduling ---------------------------- *)
\* Tk's event loop runs every after callback that is due, the wall clock goes on
\* and the user closes a dialog that is shown.
Fairness ==
    /\ WF_vars(tick)
    /\ WF_vars(\E k \in 1..Len(after_jobs) : stale_tick(k))
    /\ WF_vars(\E d \in Deltas : advance(d))
    /\ WF_vars(dismiss)

SpecLive == Init /\ [][NextGui]_vars /\ Fairness

(* ------------------------------- claims -------------------------------- *)
\* the step wrote a row
Wrote == Len(db') = Len(db) + 1
\* the row the step wrote
NewRow == db'[Len(db')]
\* the step ran stop_session for `caller` and it wrote a row
WroteBy(caller) == Wrote /\ Len(dialogs') = Len(dialogs) + 1 /\ Top(dialogs') = caller
\* after callbacks Tk holds
NumPending == (IF _timer_job >= 0 THEN 1 ELSE 0) + Len(after_jobs)
\* the controller is Idle
Idle == ~_running /\ _elapsed = 0

\* C1: in stopwatch mode, after Start, (Pause, Resume)*, [Pause], the duration Stop
\* records is the sum of the lengths of the Running intervals (sess.ran).
C1_StopRecordsRunningTime ==
    [][(WroteBy("user") /\ sess'.rows = 1 /\ sess'.plain /\ sess'.mode0 = "stopwatch")
        => NewRow.duration = sess'.ran]_vars

\* C2: the start_time of the record Stop writes is the timestamp of the first
\* Start of the session, never that of a later Resume.
C2_StartTimeIsFirstStart ==
    [][(Wrote /\ sess'.rows = 1 /\ sess'.plain)
        => NewRow.start_time = isoformat(sess'.first)]_vars

\* C3: the record of a session started in countdown mode with target T has
\* duration <= T, and duration = T when its Running time had reached T.
C3_CountdownClamped ==
    [][(Wrote /\ sess'.rows = 1 /\ sess'.plain /\ sess'.mode0 = "timer")
        => /\ NewRow.duration <= sess'.target0
           /\ sess'.ran >= sess'.target0 => NewRow.duration = sess'.target0]_vars

\* C4: a mode change with a session open stores the duration that Stop, called
\* just before the mode change, would have recorded.
C4_ModeChangeStopsUnderOldMode ==
    [][WroteBy("mode")
        => NewRow.duration = compute_duration(Self, compute_elapsed(Self, datetime_now))]_vars

\* C5: a session produces exactly one record: at no time are there two records
\* written for the same session.
C5_OneRecordPerSession == sess.rows <= 1

\* C6: Stop with no session open (not running, accumulated_elapsed = 0) signals
\* "nothing to stop", inserts nothing and leaves the controller's state alone.
C6_StopNothingOpen ==
    [][(stop_button /\ ~_running /\ _elapsed = 0)
        => /\ signal' = "No session"
           /\ db' = db
           /\ dialogs' = dialogs
           /\ UNCHANGED ctrl]_vars

C6_Witness ==
    /\ signal = "No session"
    /\ Idle

\* C7: in countdown mode a Tick that measures elapsed >= target_seconds performs
\* Stop itself: one record, duration exactly target_seconds, no further Tick
\* scheduled; a Tick that measures less stores nothing and reschedules itself.
C7_TickAutoCompletes ==
    [][((tick \/ \E k \in 1..Len(after_jobs) : stale_tick(k))
            /\ _running /\ _mode = "timer")
        => IF total_seconds(datetime_now - _start_time) + _elapsed >= _target_seconds
           THEN /\ Wrote
                /\ NewRow.duration = _target_seconds
                /\ signal' = "Session Saved"
                /\ NumPending' = NumPending - 1
           ELSE /\ db' = db
                /\ dialogs' = dialogs
                /\ NumPending' = NumPending
                /\ _timer_job' = datetime_now + AfterDelay]_vars

\* an automatic Stop, measured 30 s past a 60 s target, with no Pause
C7_Witness ==
    /\ dialogs = <<"auto">>
    /\ signal = "Session Saved"
    /\ sess.plain /\ sess.mode0 = "timer" /\ sess.ran = 90 /\ sess.target0 = 60
    /\ db # <<>>
    /\ Top(db).duration = 60
    /\ Top(db).start_time = isoformat(sess.first)
    /\ Top(db).end_time = isoformat(sess.first + 90 * Micro)

\* C8: Start in stopwatch mode and Stop at the same instant writes one record of
\* duration 0, and the controller is Idle once the Stop is over.
C8_ZeroLengthSession ==
    [][/\ (stop_button /\ _mode = "stopwatch" /\ _running /\ _elapsed = 0
                /\ _start_time = datetime_now)
            => (Wrote /\ NewRow.duration = 0 /\ signal' = "Session Saved")
       /\ (dismiss /\ Top(dialogs) = "user")
            => (Idle' /\ _start_time' = None /\ _target_seconds' = 0)]_vars

C8_Witness ==
    /\ Idle
    /\ dialogs = <<>>
    /\ ~sess.open /\ sess.plain /\ sess.mode0 = "stopwatch" /\ sess.ran = 0
    /\ db # <<>>
    /\ Top(db).duration = 0
    /\ Top(db).start_time = isoformat(sess.first)
    /\ Top(db).end_time = isoformat(sess.first)

\* C9: cancelling the countdown prompt during Start from Idle changes nothing:
\* no state variable, no Tick scheduled, no record.
C9_CancelledPrompt ==
    [][(start_session(None) /\ _mode = "timer" /\ Idle)
        => /\ UNCHANGED ctrl
           /\ UNCHANGED <<_timer_job, after_jobs, db, dialogs>>]_vars

C9_Witness ==
    /\ signal = "Timer duration cancelled"
    /\ _mode = "timer"
    /\ Idle

\* C10: get_all_sessions returns one entry per inserted session, with the id,
\* start_time and duration inserted, most recent start first.
C10_ListSummaries ==
    LET n == Len(listing)
    IN  /\ n <= Len(inserted)
        /\ \A k \in 1..n :
              Cardinality({i \in 1..n :
                  listing[i] = <<k, isoformat(inserted[k].start), inserted[k].duration>>}) = 1
        /\ \A i, j \in 1..n :
              i < j => inserted[listing[i][1]].start >= inserted[listing[j][1]].start

\* three sessions listed in an order that is not the order of insertion, one of
\* them with a fractional second
C10_Witness ==
    /\ Len(listing) = 3
    /\ Len(db) = 3
    /\ listing[1][1] = 2 /\ listing[2][1] = 3 /\ listing[3][1] = 1
    /\ inserted[3].start = 10 * Micro
    /\ inserted[2].start = 10 * Micro + (Micro \div 2)
    /\ inserted[1].start = 9 * Micro

\* text n is text t without its leading and trailing whitespace: n is a piece of
\* t, all of t outside the piece is whitespace, and n neither starts nor ends
\* with whitespace
IsTrimOf(n, t) ==
    /\ n # <<>> => ~IsSpace(n[1]) /\ ~IsSpace(n[Len(n)])
    /\ \E i \in 1..(Len(t) + 1) :
          /\ i + Len(n) - 1 <= Len(t)
          /\ SubSeq(t, i, i + Len(n) - 1) = n
          /\ \A k \in 1..Len(t) : (k < i \/ k > i + Len(n) - 1) => IsSpace(t[k])

\* C11: get_session with the id of the k-th session written returns that
\* session's start_time, end_time and duration and, as notes, the text the notes
\* widget held at Stop without its leading and trailing whitespace; get_session
\* with an id never assigned returns no row.
C11_GetByIdReturnsRecord ==
    [][\A session_id \in SessionIds :
         lookup(session_id)
         => IF session_id \in 1..Len(inserted)
            THEN LET r == inserted[session_id]
                 IN  /\ Len(fetched') = 5
                     /\ fetched'[1] = session_id
                     /\ fetched'[2] = isoformat(r.start)
                     /\ fetched'[3] = isoformat(r.end)
                     /\ fetched'[4] = r.duration
                     /\ IsTrimOf(fetched'[5], r.typed)
            ELSE fetched' = <<>>]_vars

\* the second session, stopped with " a b" and a newline in the widget, looked up
C11_Witness ==
    /\ Len(fetched) = 5
    /\ fetched[1] = 2
    /\ fetched[5] = <<97, Space, 98>>
    /\ inserted[2].typed = <<Space, 97, Space, 98, Newline>>
    /\ inserted[2].duration = 30

\* C12: the store is append-only: a step adds at most one row, the row added
\* has an id greater than every id assigned before, and no step (add_session,
\* get_all_sessions, get_session, Start, Pause, Resume, Stop, Tick, mode change)
\* changes or removes a row already written.
C12_AppendOnly ==
    [][/\ Len(db') \in {Len(db), Len(db) + 1}
       /\ \A i \in 1..Len(db) : db'[i] = db[i]
       /\ Wrote => \A i \in 1..Len(db) : NewRow.id > db[i].id]_vars

\* two rows written, the list read between the two writes and a row read after
C12_Witness ==
    /\ Len(db) = 2
    /\ db[1].id < db[2].id
    /\ Len(listing) = 1
    /\ Len(fetched) = 5
    /\ ~Modal

\* C13: Pause called while Idle or Paused, and Resume called while Idle or
\* Running, change no controller field, schedule no Tick and write no record.
C13_PauseResumeIgnored ==
    [][((pause_session /\ ~_running) \/ (resume_session /\ (_running \/ Idle)))
        => /\ UNCHANGED ctrl
           /\ UNCHANGED <<_timer_job, after_jobs, db, dialogs>>]_vars

\* C14: Start acts only from Idle: a Start from Idle whose prompt is answered
\* sets accumulated_elapsed = 0, target_seconds = minutes x 60 (countdown) or 0
\* (stopwatch), start_time = now and running = true; Start called while Running
\* or Paused changes no state.
C14_StartOnlyFromIdle ==
    [][\A minutes \in {None} \cup Minutes :
         start_session(minutes)
         => IF Idle
            THEN (_mode = "stopwatch" \/ minutes # None)
                 => /\ _elapsed' = 0
                    /\ _target_seconds' =
                           IF _mode = "timer" THEN minutes * SecondsPerMinute ELSE 0
                    /\ _start_time' = datetime_now
                    /\ _running'
            ELSE /\ UNCHANGED ctrl
                 /\ UNCHANGED <<_timer_job, after_jobs, db, dialogs>>]_vars

\* C15: when a Pause, or a Stop (by the user, by the timer or by a mode change: it
\* ends as its dialog closes) is over, no Tick callback is scheduled.
C15_NoTickAfterTransition ==
    [][((pause_session /\ _running) \/ (dismiss /\ Len(dialogs) = 1))
        => NumPending' = 0]_vars

\* C16: in every reachable state at most one Tick callback is scheduled.
C16_OneTickScheduled == NumPending <= 1

\* C17: between the insert of a Stop by the user and its reset (while its
\* "Session Saved" dialog is shown) no Tick callback performs Stop again: no
\* second record is written.
C17_StopAtomic ==
    [][((tick \/ \E k \in 1..Len(after_jobs) : stale_tick(k))
            /\ Modal /\ Top(dialogs) = "user")
        => ~Wrote]_vars

\* the elapsed value of the session: accumulated_elapsed, and the live segment
\* now - start_time when running
ElapsedValue ==
    _elapsed + (IF _running THEN total_seconds(datetime_now - _start_time) ELSE 0)

\* C18: while a session is open (running or accumulated_elapsed > 0, before and
\* after the step) its elapsed value is >= 0, no step (Pause, Resume, Tick, a
\* further Start, the clock) decreases it, and it is constant while Paused.
C18_ElapsedMonotonic ==
    [][((_running \/ _elapsed > 0) /\ (_running' \/ _elapsed' > 0))
        => /\ ElapsedValue >= 0
           /\ ElapsedValue' >= ElapsedValue
           /\ (~_running /\ ~_running') => ElapsedValue' = ElapsedValue]_vars

\* the countdown session can reach its target before the clock of the model ends
CanFinish == clock + (_target_seconds - ElapsedValue) <= MaxTime

\* a countdown session is open and running
CountdownRunning ==
    /\ _running /\ _mode = "timer" /\ ~Modal
    /\ sess.open /\ sess.mode0 = "timer" /\ sess.rows = 0
    /\ CanFinish

\* the user paused the session, stopped it or changed the mode
Disturbed ==
    \/ ~Modal /\ ~_running /\ sess.open
    \/ Modal /\ dialogs[1] \in {"user", "mode", "resume"}

\* the session is over: the controller is Idle and one record is stored for it
Finalized == Idle /\ ~Modal /\ ~sess.open /\ sess.rows = 1

\* C19: a running countdown session that the user does not pause, stop or change
\* the mode of is eventually finalized: the controller is Idle and one record is
\* stored for the session.
C19_CountdownFinalizes == CountdownRunning ~> (Finalized \/ Disturbed)

\* C20: every record written has end_time >= start_time and
\* 0 <= duration <= end_time - start_time.
C20_DurationWithinSpan ==
    \A k \in 1..Len(inserted) :
        LET r == inserted[k]
        IN  /\ r.end >= r.start
            /\ 0 <= r.duration
            /\ r.duration <= total_seconds(r.end - r.start)

====
